---------------------------- MODULE Spec2Model ----------------------------
(***************************************************************************)
(* Model of src/data/data_collection.py (HeritageDataCollector): the       *)
(* normalizers and scoring rules, the sqlite-backed store                  *)
(* (heritage_items, threat_monitoring, collection_stats), the report and   *)
(* the orchestrator run_full_collection.                                   *)
(*                                                                         *)
(* Conventions.  Python str values are TLA+ strings (TLC evaluates Len,    *)
(* \o, SubSeq, Head and Tail on them).  Scores are kept in hundredths of a *)
(* point (5.0 is 500), which is exact for every value the code computes.   *)
(* datetime.now() reads the variable clock, which the environment          *)
(* advances.  md5 is taken to be injective on its input string, so a       *)
(* hash_id is represented by the string that is hashed.                    *)
(***************************************************************************)
EXTENDS Integers, Sequences, FiniteSets, TLC

VARIABLES
    \* ---- the persistent store (committed content of the sqlite file)
    heritage_items,     \* table heritage_items: sequence of rows, in rowid order
    threat_monitoring,  \* table threat_monitoring: sequence of rows
    collection_stats,   \* table collection_stats: sequence of rows
    \* ---- environment and configuration
    clock,              \* what datetime.now() returns; each reading advances it
    news_api_key,       \* config['news_api_key'] is set (truthy)
    \* ---- the caller's view of the last completed API call
    ops,                \* number of top-level calls made so far
    runs,               \* number of those that are run_full_collection
    last,               \* the last completed call: its arguments and what it returned
    \* ---- run_full_collection in progress
    pc,                 \* position inside run_full_collection
    results,            \* its results dict
    stages,             \* what happened in each stage of the current run
    \* ---- two concurrent save_to_database executions (separate connections)
    conn,               \* per connection: position, item, lookup result, pending write
    lock,               \* connection holding sqlite's write lock, or 0
    wlog,               \* connections in the order their writes were committed
    \* ---- the classifiers applied to one payload
    article,            \* news article given to _assess_threat_severity
    severity,           \* its result
    payload,            \* museum payload given to the scorer
    scored              \* the record the museum normalizer makes of it

storeVars == <<heritage_items, threat_monitoring, collection_stats>>
envVars   == <<clock, news_api_key>>
callVars  == <<ops, runs, last>>
runVars   == <<pc, results, stages>>
concVars  == <<conn, lock, wlog>>
sevVars   == <<article, severity>>
scoreVars == <<payload, scored>>
vars == <<storeVars, envVars, callVars, runVars, concVars, sevVars, scoreVars>>

(***************************************************************************)
(* Python string operations                                                *)
(***************************************************************************)

UpperCase == "ABCDEFGHIJKLMNOPQRSTUVWXYZ"
LowerCase == "abcdefghijklmnopqrstuvwxyz"

\* str.lower() on one character
LowerChar(c) ==
    IF \E i \in 1..Len(UpperCase) : SubSeq(UpperCase, i, i) = c
    THEN LET i == CHOOSE k \in 1..Len(UpperCase) : SubSeq(UpperCase, k, k) = c
         IN  SubSeq(LowerCase, i, i)
    ELSE c

RECURSIVE Lower(_)
\* str.lower()
Lower(s) == IF Len(s) = 0 THEN "" ELSE LowerChar(Head(s)) \o Lower(Tail(s))

\* Python's  sub in s  on strings
Contains(sub, s) ==
    \E i \in 1..(Len(s) - Len(sub) + 1) : SubSeq(s, i, i + Len(sub) - 1) = sub

\* any(k in s for k in keywords)
AnyIn(keywords, s) == \E k \in keywords : Contains(k, s)

(***************************************************************************)
(* _assess_threat_severity                                                 *)
(***************************************************************************)

high_severity_keywords == {"destroyed", "burned", "demolished", "stolen", "looted"}
medium_severity_keywords == {"damaged", "vandalized", "threatened", "at risk"}

\* article.get(k, '') inside an f-string: a JSON null is formatted as "None"
ArticleField(a, k) == IF k \in a.null THEN "None" ELSE a[k]

\* content = f"{title} {description}".lower()
ArticleContent(a) ==
    Lower(ArticleField(a, "title") \o " " \o ArticleField(a, "description"))

SeverityMediumFirst(a) ==
    IF AnyIn(medium_severity_keywords, ArticleContent(a)) THEN "Medium"
    ELSE IF AnyIn(high_severity_keywords, ArticleContent(a)) THEN "High"
    ELSE "Low"

assess_threat_severity(a) ==
    IF AnyIn(high_severity_keywords, ArticleContent(a)) THEN "High"
    ELSE IF AnyIn(medium_severity_keywords, ArticleContent(a)) THEN "Medium"
    ELSE "Low"


(***************************************************************************)
(* Museum normalizer and scorer                                            *)
(*                                                                         *)
(* A museum payload (the JSON object of one Met object) is a record with   *)
(* the keys the code reads; the Met API sends every key, "" when it has no *)
(* value, so the .get defaults are never taken.                            *)
(***************************************************************************)

famous_artists ==
    {"Leonardo da Vinci", "Michelangelo", "Vincent van Gogh",
     "Pablo Picasso", "Claude Monet", "Rembrandt", "Auguste Rodin"}

antiquity_markers == {"bc", "century", "dynasty"}

high_risk_locations ==
    {"Syria", "Iraq", "Afghanistan", "Yemen", "Libya", "Ukraine", "Myanmar", "Mali"}

\* the five conditions _calculate_significance_score tests
FamousArtist(data)  == AnyIn(famous_artists, data.artistDisplayName)
AntiqueDate(data)   == AnyIn(antiquity_markers, Lower(data.objectDate))
PublicDomain(data)  == data.isPublicDomain
HasImage(data)      == data.primaryImage # ""
OnView(data)        == data.isOnView

Min(a, b) == IF a <= b THEN a ELSE b

ScoreOnViewDoubled(data) ==
    Min(500 + (IF FamousArtist(data) THEN 200 ELSE 0)
            + (IF AntiqueDate(data) THEN 150 ELSE 0)
            + (IF PublicDomain(data) THEN 50 ELSE 0)
            + (IF HasImage(data) THEN 50 ELSE 0)
            + (IF OnView(data) THEN 100 ELSE 0), 1000)

\* _calculate_significance_score, in hundredths
calculate_significance_score(data) ==
    LET s0 == 500
        s1 == IF FamousArtist(data) THEN s0 + 200 ELSE s0
        s2 == IF AntiqueDate(data) THEN s1 + 150 ELSE s1
        s3 == IF PublicDomain(data) THEN s2 + 50 ELSE s2
        s4 == IF HasImage(data) THEN s3 + 50 ELSE s3
        s5 == IF OnView(data) THEN s4 + 50 ELSE s4
    IN  Min(s5, 1000)

ThreatLevelOnViewFirst(data) ==
    IF data.isOnView THEN "Low"
    ELSE IF AnyIn({Lower(r) : r \in high_risk_locations}, Lower(data.country))
         THEN "High"
    ELSE "Medium"

\* _assess_threat_level
assess_threat_level(data) ==
    LET location == Lower(data.country)
    IN  IF AnyIn({Lower(r) : r \in high_risk_locations}, location) THEN "High"
        ELSE IF data.isOnView THEN "Low"
        ELSE "Medium"

RECURSIVE LStrip(_, _)
LStrip(s, chars) ==
    IF Len(s) > 0 /\ Head(s) \in chars THEN LStrip(Tail(s), chars) ELSE s

RECURSIVE RStrip(_, _)
RStrip(s, chars) ==
    IF Len(s) > 0 /\ SubSeq(s, Len(s), Len(s)) \in chars
    THEN RStrip(SubSeq(s, 1, Len(s) - 1), chars) ELSE s

\* str.strip(chars)
Strip(s, chars) == RStrip(LStrip(s, chars), chars)

\* json.dumps of the metadata dict: its key/value pairs in insertion order
MetMetadata(obj_id, data) ==
    << <<"object_id", obj_id>>,
       <<"artist", data.artistDisplayName>>,
       <<"date", data.objectDate>>,
       <<"medium", data.medium>>,
       <<"public_domain", data.isPublicDomain>>,
       <<"primary_image", data.primaryImage>> >>

\* the HeritageItem built in _process_met_batch for one fetched object
MetItem(obj_id, data, now) ==
    [name |-> data.title,
     location |-> Strip(data.city \o ", " \o data.country, {",", " "}),
     type |-> data.classification,
     period |-> data.period,
     significance_score |-> calculate_significance_score(data),
     threat_level |-> assess_threat_level(data),
     last_updated |-> now,
     source |-> "Metropolitan Museum",
     metadata |-> MetMetadata(obj_id, data)]

\* "if not data.get('title') or not data.get('isPublicDomain'): continue"
MetEligible(data) == data.title # "" /\ data.isPublicDomain

RECURSIVE process_met_batch(_, _)
\* _process_met_batch: one fetch per object id; a failed fetch is logged and
\* skipped, an ineligible payload is skipped
process_met_batch(fetches, now) ==
    IF fetches = <<>> THEN <<>>
    ELSE LET f == Head(fetches)
             rest == process_met_batch(Tail(fetches), now)
         IN  IF f.ok /\ MetEligible(f.data)
             THEN <<MetItem(f.obj_id, f.data, now)>> \o rest
             ELSE rest

batch_size == 100
ObjectCap == 1000

RECURSIVE MetBatches(_, _, _)
\* the loop "for i in range(0, min(len(object_ids), 1000), batch_size)"
MetBatches(fetches, i, now) ==
    IF i >= Min(Len(fetches), ObjectCap) THEN <<>>
    ELSE process_met_batch(SubSeq(fetches, i + 1, Min(i + batch_size, Len(fetches))), now)
         \o MetBatches(fetches, i + batch_size, now)

\* collect_met_museum_data: every exception is caught and logged inside it, so
\* a failing listing request gives the empty list
collect_met_museum_data(resp, now) ==
    IF resp.list_ok THEN MetBatches(resp.objects, 0, now) ELSE <<>>

(***************************************************************************)
(* Registry (UNESCO) normalizer                                            *)
(***************************************************************************)

Digits == "0123456789"

DigitVal(c) == (CHOOSE k \in 1..10 : SubSeq(Digits, k, k) = c) - 1

IsDigit(c) == \E k \in 1..10 : SubSeq(Digits, k, k) = c

AllDigits(s) == Len(s) > 0 /\ \A i \in 1..Len(s) : IsDigit(SubSeq(s, i, i))

RECURSIVE DigitsVal(_)
DigitsVal(s) ==
    IF Len(s) = 0 THEN 0
    ELSE 10 * DigitsVal(SubSeq(s, 1, Len(s) - 1)) + DigitVal(SubSeq(s, Len(s), Len(s)))

\* int(s) succeeds: an optional sign followed by decimal digits
IntParses(s) ==
    IF Len(s) > 0 /\ Head(s) \in {"-", "+"} THEN AllDigits(Tail(s)) ELSE AllDigits(s)

\* int(s)
IntOf(s) ==
    IF Head(s) = "-" THEN 0 - DigitsVal(Tail(s))
    ELSE IF Head(s) = "+" THEN DigitsVal(Tail(s))
    ELSE DigitsVal(s)

ReferenceYear == 2024

\* int(site.get('date_inscribed', 2024)) raises
SiteYearFails(site) ==
    "date_inscribed" \notin site.absent /\ ~IntParses(site.date_inscribed)

SiteYear(site) ==
    IF "date_inscribed" \in site.absent THEN ReferenceYear ELSE IntOf(site.date_inscribed)

\* min(9.0 + (2024 - year) / 100, 10.0), in hundredths
UnescoScore(site) == Min(900 + (ReferenceYear - SiteYear(site)), 1000)

UnescoItem(site, now) ==
    [name |-> site.site,
     location |-> site.states,
     type |-> "heritage_site",
     period |-> IF "date_inscribed" \in site.absent THEN "Unknown"
                ELSE site.date_inscribed,
     significance_score |-> UnescoScore(site),
     threat_level |-> IF site.danger = "1" THEN "High" ELSE "Medium",
     last_updated |-> now,
     source |-> "UNESCO",
     metadata |-> << <<"unique_number", site.unique_number>>,
                     <<"danger_list", site.danger = "1">> >>]

RECURSIVE UnescoLoop(_, _)
\* the loop "for site in data": it stops at the first site whose year does not
\* convert, and the items appended before it are what is returned
UnescoLoop(sites, now) ==
    IF sites = <<>> \/ SiteYearFails(Head(sites)) THEN <<>>
    ELSE <<UnescoItem(Head(sites), now)>> \o UnescoLoop(Tail(sites), now)

\* collect_unesco_data: every exception is caught and logged inside it
collect_unesco_data(resp, now) ==
    IF resp.ok THEN UnescoLoop(resp.sites, now) ELSE <<>>

(***************************************************************************)
(* Threat monitoring                                                       *)
(***************************************************************************)

default_keywords ==
    <<"museum destroyed", "cultural heritage damage", "art theft",
      "monument vandalized", "archaeological site damaged",
      "library burned", "statue toppled", "heritage site threatened">>

\* the threat dict built for one article of one keyword's response
ThreatOf(a, keyword) ==
    [title |-> a.title, title_null |-> "title" \in a.null,
     source |-> a.source, keyword |-> keyword,
     severity |-> assess_threat_severity(a)]

RECURSIVE ThreatsOfArticles(_, _)
ThreatsOfArticles(articles, keyword) ==
    IF articles = <<>> THEN <<>>
    ELSE <<ThreatOf(Head(articles), keyword)>>
         \o ThreatsOfArticles(Tail(articles), keyword)

RECURSIVE KeywordLoop(_, _)
\* "for keyword in keywords": one request per keyword; the first failing
\* request ends the loop (the except is outside it) and the threats gathered
\* so far are returned
KeywordLoop(resps, k) ==
    IF k > Len(default_keywords) \/ ~resps[k].ok THEN <<>>
    ELSE ThreatsOfArticles(resps[k].articles, default_keywords[k])
         \o KeywordLoop(resps, k + 1)

MonitorIgnoringKey(resps, key) == KeywordLoop(resps, 1)

\* monitor_cultural_threats: without an API key it returns [] before any request
monitor_cultural_threats(resps, key) ==
    IF ~key THEN <<>> ELSE KeywordLoop(resps, 1)

\* number of requests monitor_cultural_threats sends to the news source
NewsRequests(resps, key) ==
    IF ~key THEN 0
    ELSE IF \E k \in 1..Len(default_keywords) : ~resps[k].ok
         THEN CHOOSE k \in 1..Len(default_keywords) :
                  ~resps[k].ok /\ \A j \in 1..(k - 1) : resps[j].ok
         ELSE Len(default_keywords)

(***************************************************************************)
(* The store                                                               *)
(***************************************************************************)

\* item_data = f"{item.name}_{item.location}_{item.source}"; hash_id is its md5
HashId(item) == item.name \o "_" \o item.location \o "_" \o item.source

\* SELECT id FROM heritage_items WHERE hash_id = ?  finds a row
Existing(tbl, h) == \E i \in 1..Len(tbl) : tbl[i].hash_id = h

UpdateAlsoTypePeriod(tbl, item) ==
    [i \in 1..Len(tbl) |->
        IF tbl[i].hash_id = HashId(item)
        THEN [tbl[i] EXCEPT !.significance_score = item.significance_score,
                            !.threat_level = item.threat_level,
                            !.last_updated = item.last_updated,
                            !.metadata = item.metadata,
                            !.type = item.type,
                            !.period = item.period]
        ELSE tbl[i]]

\* UPDATE heritage_items SET significance_score, threat_level, last_updated,
\* metadata WHERE hash_id = ?
UpdateRow(tbl, item) ==
    [i \in 1..Len(tbl) |->
        IF tbl[i].hash_id = HashId(item)
        THEN [tbl[i] EXCEPT !.significance_score = item.significance_score,
                            !.threat_level = item.threat_level,
                            !.last_updated = item.last_updated,
                            !.metadata = item.metadata]
        ELSE tbl[i]]

\* INSERT INTO heritage_items (...): the rowid is the next AUTOINCREMENT value
InsertRow(tbl, item) ==
    Append(tbl, [id |-> Len(tbl) + 1,
                 name |-> item.name, location |-> item.location,
                 type |-> item.type, period |-> item.period,
                 significance_score |-> item.significance_score,
                 threat_level |-> item.threat_level,
                 last_updated |-> item.last_updated,
                 source |-> item.source, metadata |-> item.metadata,
                 hash_id |-> HashId(item)])

UpsertAlwaysInsert(st, item) ==
    [st EXCEPT !.tbl = InsertRow(st.tbl, item), !.new = st.new + 1]

\* one iteration of the loop of save_to_database, inside its transaction
Upsert(st, item) ==
    IF Existing(st.tbl, HashId(item))
    THEN [st EXCEPT !.tbl = UpdateRow(st.tbl, item), !.updated = st.updated + 1]
    ELSE [st EXCEPT !.tbl = InsertRow(st.tbl, item), !.new = st.new + 1]

RECURSIVE SaveLoop(_, _, _)
\* the first n iterations of "for item in heritage_items", from state st
SaveLoop(st, items, n) ==
    IF n = 0 THEN st ELSE Upsert(SaveLoop(st, items, n - 1), items[n])

\* save_to_database(items) on table content tbl.  failAt = 0: every statement
\* succeeds and the transaction is committed.  failAt = k > 0: a statement for
\* the k-th item raises sqlite3.Error; the "with" block rolls the transaction
\* back and the exception leaves save_to_database.
save_to_database(tbl, items, failAt) ==
    IF failAt = 0
    THEN LET st == SaveLoop([tbl |-> tbl, new |-> 0, updated |-> 0], items, Len(items))
         IN  [tbl |-> st.tbl, new |-> st.new, updated |-> st.updated, raised |-> FALSE]
    ELSE [tbl |-> tbl, new |-> 0, updated |-> 0, raised |-> TRUE]

\* where a store failure can strike: at no statement, or at one item's statements
FailPoints(items) == 0..Len(items)

ThreatRow(t, now) ==
    [threat_type |-> t.keyword, severity |-> t.severity,
     description |-> t.title, description_null |-> t.title_null,
     detected_date |-> now, source |-> t.source]

\* save_threats_to_database(threats): one INSERT per threat, then commit
save_threats_to_database(tbl, threats, now, failAt) ==
    IF failAt = 0
    THEN [tbl |-> tbl \o [i \in 1..Len(threats) |-> ThreatRow(threats[i], now)],
          saved |-> Len(threats), raised |-> FALSE]
    ELSE [tbl |-> tbl, saved |-> 0, raised |-> TRUE]

(***************************************************************************)
(* generate_collection_report                                              *)
(***************************************************************************)

RECURSIVE SumScores(_)
SumScores(rows) ==
    IF rows = <<>> THEN 0 ELSE Head(rows).significance_score + SumScores(Tail(rows))

LocationCountsWithEmpty(tbl) ==
    LET locs == {tbl[i].location : i \in 1..Len(tbl)}
    IN  {<<l, Cardinality({i \in 1..Len(tbl) : tbl[i].location = l})>> : l \in locs}

\* SELECT location, COUNT(*) ... WHERE location IS NOT NULL AND location != ''
\* GROUP BY location
LocationCounts(tbl) ==
    LET locs == {tbl[i].location : i \in 1..Len(tbl)} \ {""}
    IN  {<<l, Cardinality({i \in 1..Len(tbl) : tbl[i].location = l})>> : l \in locs}

TopLimit == 10
Week == 7

RECURSIVE OrdersBy(_, _)
\* the ways to list up to n of the groups by count, largest first
OrdersBy(groups, n) ==
    IF n = 0 \/ groups = {} THEN {<<>>}
    ELSE LET top == {g \in groups : \A h \in groups : g[2] >= h[2]}
         IN  UNION {{<<g>> \o q : q \in OrdersBy(groups \ {g}, n - 1)} : g \in top}

\* ORDER BY count DESC LIMIT 10: the orders sqlite may return (it leaves the
\* order of equal counts open)
TopLocationOrders(tbl) == OrdersBy(LocationCounts(tbl), TopLimit)

\* the report, given the order the top-locations query returned
ReportOf(tbl, threats, now, top) ==
    [total_items |-> Len(tbl),
     sources |-> {<<src, Cardinality({i \in 1..Len(tbl) : tbl[i].source = src}),
                    SumScores(SelectSeq(tbl, LAMBDA r : r.source = src))>> :
                  src \in {tbl[i].source : i \in 1..Len(tbl)}},
     threat_distribution |->
         {<<lvl, Cardinality({i \in 1..Len(tbl) : tbl[i].threat_level = lvl})>> :
          lvl \in {tbl[i].threat_level : i \in 1..Len(tbl)}},
     recent_threats |->
         Cardinality({i \in 1..Len(threats) : threats[i].detected_date > now - Week}),
     top_locations |-> top]

(***************************************************************************)
(* What the external sources may answer                                    *)
(***************************************************************************)

MonaLisa ==
    [title |-> "Mona Lisa", city |-> "Paris", country |-> "France",
     classification |-> "Paintings", period |-> "", artistDisplayName |-> "",
     objectDate |-> "", medium |-> "Oil", isPublicDomain |-> TRUE,
     primaryImage |-> "", isOnView |-> TRUE]

MonaLisaStored == [MonaLisa EXCEPT !.isOnView = FALSE]

\* another object with the same title and place, catalogued differently
MonaLisaPrint ==
    [MonaLisa EXCEPT !.classification = "Prints", !.period = "Renaissance",
                     !.artistDisplayName = "After Leonardo da Vinci",
                     !.objectDate = "16th Century", !.medium = "Engraving",
                     !.primaryImage = "https://images/ml.jpg"]

PalmyraRelief ==
    [title |-> "Funerary Relief", city |-> "Palmyra", country |-> "SYRIA",
     classification |-> "Sculpture", period |-> "Roman", artistDisplayName |-> "",
     objectDate |-> "150 BC", medium |-> "Limestone", isPublicDomain |-> TRUE,
     primaryImage |-> "", isOnView |-> TRUE]

Restricted == [MonaLisaPrint EXCEPT !.title = "Study", !.isPublicDomain = FALSE]

Fetched(id, data) == [ok |-> TRUE, obj_id |-> id, data |-> data]
FetchFailed(id) == [ok |-> FALSE, obj_id |-> id, data |-> MonaLisa]

\* answers of the museum source: the listing request, then one fetch per id
MetResponses ==
    { [list_ok |-> FALSE, objects |-> <<>>],
      [list_ok |-> TRUE, objects |-> <<>>],
      [list_ok |-> TRUE, objects |-> <<Fetched(1, MonaLisa)>>],
      [list_ok |-> TRUE, objects |-> <<Fetched(1, MonaLisaStored)>>],
      [list_ok |-> TRUE, objects |-> <<Fetched(1, MonaLisa), Fetched(2, MonaLisaPrint)>>],
      [list_ok |-> TRUE,
       objects |-> <<FetchFailed(3), Fetched(4, PalmyraRelief), Fetched(5, Restricted)>>] }

Site(name, states, year, danger) ==
    [site |-> name, states |-> states, date_inscribed |-> year, danger |-> danger,
     unique_number |-> Len(name), absent |-> {}]

Krakow   == Site("Historic Centre of Krakow", "Poland", "1978", "0")
Palmyra  == Site("Site of Palmyra", "Syria", "1980", "1")
Undated  == [Site("Tentative Site", "", "", "0") EXCEPT !.absent = {"date_inscribed"}]
BadYear  == Site("Old Town", "Poland", "n/a", "0")
Ancient  == Site("Old Town", "Poland", "1900", "0")
FarYear  == Site("Future Site", "Poland", "3000", "0")

\* answers of the registry source
UnescoResponses ==
    { [ok |-> FALSE, sites |-> <<>>],
      [ok |-> TRUE, sites |-> <<>>],
      [ok |-> TRUE, sites |-> <<Krakow, Palmyra, Undated>>],
      [ok |-> TRUE, sites |-> <<Krakow, BadYear, Palmyra>>],
      [ok |-> TRUE, sites |-> <<Ancient>>],
      [ok |-> TRUE, sites |-> <<FarYear>>] }

Article(title, description, source) ==
    [title |-> title, description |-> description, source |-> source, null |-> {}]

NoArticles == [ok |-> TRUE, articles |-> <<>>]
RequestFails == [ok |-> FALSE, articles |-> <<>>]

\* answers of the news source, one per keyword
News(r1, r2) == <<r1, r2>> \o [i \in 1..(Len(default_keywords) - 2) |-> NoArticles]

NewsResponses ==
    { News(NoArticles, NoArticles),
      News(RequestFails, NoArticles),
      News([ok |-> TRUE,
            articles |-> <<Article("Museum destroyed and statues damaged", "", "Wire"),
                           [Article("", "Site at risk", "Daily") EXCEPT !.null = {"title"}]>>],
           RequestFails) }

(***************************************************************************)
(* Bounds of the model                                                     *)
(***************************************************************************)

MaxOps == 2      \* top-level calls (save, save threats, report, run) in one behaviour
MaxRuns == 1     \* calls of run_full_collection among them
MaxStoreFailures == 1   \* statements of one run that sqlite fails

(***************************************************************************)
(* Initial state: a freshly initialised database (_init_database creates   *)
(* the three empty tables), nothing called yet                             *)
(***************************************************************************)

NoResults ==
    [start_time |-> 0, sources_processed |-> <<>>, total_items_collected |-> 0,
     new_items |-> 0, updated_items |-> 0, threats_detected |-> 0, errors |-> <<>>]

NoStages ==
    [attempted |-> <<>>, store_failed |-> {}, met_listing_failed |-> FALSE,
     unesco_ok |-> FALSE, unesco_items |-> 0, news_requests |-> 0,
     threats_before |-> 0, met_objects |-> <<>>, unesco_sites |-> <<>>]

ConnIdle == [pos |-> "idle", item |-> MetItem(1, MonaLisa, 0), existing |-> FALSE,
             error |-> "", pending |-> <<>>]

StoreInit ==
    /\ heritage_items = <<>>
    /\ threat_monitoring = <<>>
    /\ collection_stats = <<>>

CallInit == ops = 0 /\ runs = 0 /\ last = [op |-> "none"]
RunInit  == pc = "idle" /\ results = NoResults /\ stages = NoStages
ConcInit == conn = [c \in {1, 2} |-> ConnIdle] /\ lock = 0 /\ wlog = <<>>
SevInit  == article = Article("", "", "") /\ severity = "unset"
NotScored == [called |-> FALSE, score |-> 0, level |-> "unset", ingests |-> 0,
              kept |-> <<>>, prev_level |-> ""]
ScoreInit == payload = MonaLisa /\ scored = NotScored

Init ==
    /\ StoreInit /\ CallInit /\ RunInit /\ ConcInit /\ SevInit /\ ScoreInit
    /\ clock = 0
    /\ news_api_key \in BOOLEAN

(***************************************************************************)
(* The public operations, called one at a time                             *)
(***************************************************************************)

\* no run_full_collection is in progress
Rest == pc \in {"idle", "done", "raised"}

\* a new call begins: the locals of a finished run are gone
NoRun == pc' = "idle" /\ results' = NoResults /\ stages' = NoStages

\* the hash_ids stored in tbl
Keys(tbl) == {tbl[i].hash_id : i \in 1..Len(tbl)}

\* datetime.now() never returns more than this: a run reads the clock four
\* times, every other call once
MaxTime == 4 * MaxOps

\* the normalizers' results, tabulated once for every answer and clock reading
MetCollected ==
    [r \in MetResponses, t \in 0..MaxTime |-> collect_met_museum_data(r, t)]

UnescoCollected ==
    [r \in UnescoResponses, t \in 0..MaxTime |-> collect_unesco_data(r, t)]

ThreatsCollected ==
    [r \in NewsResponses, k \in BOOLEAN |-> monitor_cultural_threats(r, k)]

\* item lists the normalizers produce at time now
SaveInputs(now) ==
    {MetCollected[r, now] : r \in MetResponses}
        \cup {UnescoCollected[r, now] : r \in UnescoResponses}

\* a call of save_to_database
SaveToDatabase ==
    /\ Rest /\ ops < MaxOps
    /\ \E items \in SaveInputs(clock) : \E failAt \in FailPoints(items) :
          LET r == save_to_database(heritage_items, items, failAt)
          IN  /\ heritage_items' = r.tbl
              /\ last' = [op |-> "save", items |-> items,
                          pre_keys |-> Keys(heritage_items), new |-> r.new,
                          updated |-> r.updated, raised |-> r.raised,
                          failed_at |-> failAt]
    /\ ops' = ops + 1 /\ clock' = clock + 1 /\ NoRun /\ UNCHANGED runs
    /\ UNCHANGED <<threat_monitoring, collection_stats, news_api_key,
                   concVars, sevVars, scoreVars>>

\* a call of save_threats_to_database
SaveThreatsToDatabase ==
    /\ Rest /\ ops < MaxOps
    /\ \E resps \in NewsResponses :
          LET threats == ThreatsCollected[resps, TRUE]
          IN  \E failAt \in FailPoints(threats) :
                LET r == save_threats_to_database(threat_monitoring, threats, clock, failAt)
                IN  /\ threat_monitoring' = r.tbl
                    /\ last' = [op |-> "save_threats", saved |-> r.saved,
                                raised |-> r.raised]
    /\ ops' = ops + 1 /\ clock' = clock + 1 /\ NoRun /\ UNCHANGED runs
    /\ UNCHANGED <<heritage_items, collection_stats, news_api_key,
                   concVars, sevVars, scoreVars>>

\* a call of generate_collection_report
GenerateCollectionReport ==
    /\ Rest /\ ops < MaxOps
    /\ \E top \in TopLocationOrders(heritage_items) :
          last' = [op |-> "report",
                   report |-> ReportOf(heritage_items, threat_monitoring, clock, top)]
    /\ ops' = ops + 1 /\ clock' = clock + 1 /\ NoRun /\ UNCHANGED runs
    /\ UNCHANGED <<storeVars, news_api_key, concVars, sevVars, scoreVars>>

(***************************************************************************)
(* run_full_collection, one stage per step                                 *)
(***************************************************************************)

\* results = {...}; start_time = datetime.now()
RunStart ==
    /\ Rest /\ ops < MaxOps /\ runs < MaxRuns
    /\ pc' = "met"
    /\ results' = [NoResults EXCEPT !.start_time = clock]
    /\ stages' = [NoStages EXCEPT !.threats_before = Len(threat_monitoring)]
    /\ last' = [op |-> "running"]
    /\ ops' = ops + 1 /\ runs' = runs + 1 /\ clock' = clock + 1
    /\ UNCHANGED <<storeVars, news_api_key, concVars, sevVars, scoreVars>>

\* where a store failure can strike in the current run
RunFailPoints(items) ==
    IF Cardinality(stages.store_failed) < MaxStoreFailures THEN FailPoints(items) ELSE {0}

\* the body of a heritage stage's try block after the collect call, and its
\* except clause: r is what save_to_database did
HeritageStageResults(res, label, items, r) ==
    IF r.raised
    THEN [res EXCEPT !.errors = Append(@, label \o " collection failed")]
    ELSE [res EXCEPT !.sources_processed = Append(@, label),
                     !.total_items_collected = @ + Len(items),
                     !.new_items = @ + r.new,
                     !.updated_items = @ + r.updated]

\* first try block: collect_met_museum_data, save_to_database
RunMet ==
    /\ pc = "met"
    /\ \E resp \in MetResponses :
          LET items == MetCollected[resp, clock]
          IN  \E failAt \in RunFailPoints(items) :
                LET r == save_to_database(heritage_items, items, failAt)
                IN  /\ heritage_items' = r.tbl
                    /\ results' = HeritageStageResults(results, "Met Museum", items, r)
                    /\ stages' = [stages EXCEPT
                                    !.attempted = Append(@, "met"),
                                    !.met_listing_failed = ~resp.list_ok,
                                    !.met_objects = IF resp.list_ok THEN resp.objects
                                                    ELSE <<>>,
                                    !.store_failed = IF r.raised THEN @ \cup {"met"} ELSE @]
    /\ pc' = "unesco" /\ clock' = clock + 1
    /\ UNCHANGED <<threat_monitoring, collection_stats, news_api_key, callVars,
                   concVars, sevVars, scoreVars>>

\* second try block: collect_unesco_data, save_to_database
RunUnesco ==
    /\ pc = "unesco"
    /\ \E resp \in UnescoResponses :
          LET items == UnescoCollected[resp, clock]
          IN  \E failAt \in RunFailPoints(items) :
                LET r == save_to_database(heritage_items, items, failAt)
                IN  /\ heritage_items' = r.tbl
                    /\ results' = HeritageStageResults(results, "UNESCO", items, r)
                    /\ stages' = [stages EXCEPT
                                    !.attempted = Append(@, "unesco"),
                                    !.unesco_ok = resp.ok /\ Len(items) = Len(resp.sites),
                                    !.unesco_items = Len(items),
                                    !.unesco_sites = IF resp.ok THEN resp.sites ELSE <<>>,
                                    !.store_failed = IF r.raised THEN @ \cup {"unesco"} ELSE @]
    /\ pc' = "threats" /\ clock' = clock + 1
    /\ UNCHANGED <<threat_monitoring, collection_stats, news_api_key, callVars,
                   concVars, sevVars, scoreVars>>

\* third try block: monitor_cultural_threats, save_threats_to_database
RunThreats ==
    /\ pc = "threats"
    /\ \E resps \in NewsResponses :
          LET threats == ThreatsCollected[resps, news_api_key]
          IN  \E failAt \in RunFailPoints(threats) :
                LET r == save_threats_to_database(threat_monitoring, threats, clock, failAt)
                IN  /\ threat_monitoring' = r.tbl
                    /\ results' =
                         IF r.raised
                         THEN [results EXCEPT !.errors = Append(@, "Threat monitoring failed")]
                         ELSE [results EXCEPT !.sources_processed = Append(@, "Threat Monitoring"),
                                              !.threats_detected = r.saved]
                    /\ stages' = [stages EXCEPT
                                    !.attempted = Append(@, "threats"),
                                    !.news_requests = NewsRequests(resps, news_api_key),
                                    !.store_failed = IF r.raised THEN @ \cup {"threats"} ELSE @]
    /\ pc' = "stats" /\ clock' = clock + 1
    /\ UNCHANGED <<heritage_items, collection_stats, news_api_key, callVars,
                   concVars, sevVars, scoreVars>>

StatsRowWithoutErrors(res) ==
    [collection_date |-> res.start_time, source |-> "full_collection",
     total_items |-> res.total_items_collected, new_items |-> res.new_items,
     updated_items |-> res.updated_items, errors |-> 0]

\* the VALUES of INSERT INTO collection_stats
StatsRow(res) ==
    [collection_date |-> res.start_time, source |-> "full_collection",
     total_items |-> res.total_items_collected, new_items |-> res.new_items,
     updated_items |-> res.updated_items, errors |-> Len(res.errors)]

\* "Record collection statistics" (outside every try block), then return; a
\* failing INSERT or commit here leaves run_full_collection as an exception
RunStats ==
    /\ pc = "stats"
    /\ \E fails \in {f \in BOOLEAN : f => Cardinality(stages.store_failed) < MaxStoreFailures} :
          IF fails
          THEN /\ pc' = "raised"
               /\ collection_stats' = collection_stats
               /\ stages' = [stages EXCEPT !.attempted = Append(@, "stats"),
                                           !.store_failed = @ \cup {"stats"}]
               /\ last' = [op |-> "run", raised |-> TRUE]
          ELSE /\ pc' = "done"
               /\ collection_stats' = Append(collection_stats, StatsRow(results))
               /\ stages' = [stages EXCEPT !.attempted = Append(@, "stats")]
               /\ last' = [op |-> "run", raised |-> FALSE, results |-> results]
    /\ UNCHANGED <<heritage_items, threat_monitoring, envVars, ops, runs, results,
                   concVars, sevVars, scoreVars>>

Next ==
    \/ SaveToDatabase
    \/ SaveThreatsToDatabase
    \/ GenerateCollectionReport
    \/ RunStart
    \/ RunMet
    \/ RunUnesco
    \/ RunThreats
    \/ RunStats

Spec == Init /\ [][Next]_vars

(***************************************************************************)
(* The threat classifier applied to one article                            *)
(***************************************************************************)

\* sample texts, each with whether a high- and a medium-severity term was put
\* into it
SeverityTexts ==
    { <<"", FALSE, FALSE>>,
      <<"Festival opens", FALSE, FALSE>>,
      <<"Museum DESTROYED by fire", TRUE, FALSE>>,
      <<"Statue damaged", FALSE, TRUE>>,
      <<"Looted and vandalized", TRUE, TRUE>>,
      <<"Threatened shrine later Demolished", TRUE, TRUE>>,
      <<"Old site at", FALSE, FALSE>>,
      <<"risk of collapse", FALSE, FALSE>> }

Texts == {x[1] : x \in SeverityTexts}

Articles ==
    {Article(t, d, "Wire") : t \in Texts, d \in Texts}
        \cup {[Article(t, "", "Wire") EXCEPT !.null = {"description"}] : t \in Texts}

InitSeverity ==
    /\ StoreInit /\ CallInit /\ RunInit /\ ConcInit /\ ScoreInit
    /\ clock = 0 /\ news_api_key = TRUE
    /\ article \in Articles
    /\ severity = "unset"

\* a call of _assess_threat_severity(article)
AssessThreatSeverity ==
    /\ severity = "unset"
    /\ severity' = assess_threat_severity(article)
    /\ UNCHANGED <<storeVars, envVars, callVars, runVars, concVars, article, scoreVars>>

NextSeverity == AssessThreatSeverity

SpecSeverity == InitSeverity /\ [][NextSeverity]_vars

(***************************************************************************)
(* One museum object ingested, then ingested again                         *)
(***************************************************************************)

MaxIngests == 2   \* times the object is fetched and saved

ArtistTexts == {"", "Unknown", "Workshop of Rembrandt"}
DateTexts == {"", "1503", "ca. 500 BC"}
Countries == {"France", "Syrian Arab Republic", ""}

\* the payloads the museum source may send for one object
IngestPayloads ==
    {[MonaLisa EXCEPT !.country = c, !.artistDisplayName = a, !.objectDate = d,
                      !.isPublicDomain = pd, !.primaryImage = img, !.isOnView = ov] :
        c \in Countries, a \in ArtistTexts, d \in DateTexts, pd \in BOOLEAN,
        img \in {"", "https://images/ml.jpg"}, ov \in BOOLEAN}

InitIngest ==
    /\ StoreInit /\ CallInit /\ RunInit /\ ConcInit /\ SevInit
    /\ clock = 0 /\ news_api_key = TRUE
    /\ payload \in IngestPayloads
    /\ scored = NotScored

\* direct calls of _calculate_significance_score and _assess_threat_level
ScorePayload ==
    /\ ~scored.called /\ scored.ingests = 0
    /\ scored' = [scored EXCEPT !.called = TRUE,
                                !.score = calculate_significance_score(payload),
                                !.level = assess_threat_level(payload)]
    /\ UNCHANGED <<storeVars, envVars, callVars, runVars, concVars, sevVars, payload>>

\* _process_met_batch([1]) for every answer and clock reading, tabulated once
BatchOfOne ==
    [p \in IngestPayloads, t \in 0..MaxIngests |-> process_met_batch(<<Fetched(1, p)>>, t)]

\* _process_met_batch([1]) with the source answering p, then save_to_database
IngestOf(p) ==
    LET items == BatchOfOne[p, clock]
        r == save_to_database(heritage_items, items, 0)
    IN  /\ heritage_items' = r.tbl
        /\ payload' = p
        /\ scored' = [scored EXCEPT
                        !.ingests = @ + 1,
                        !.kept = IF items = <<>> THEN @ ELSE <<p>>,
                        !.prev_level = IF heritage_items = <<>> THEN ""
                                       ELSE heritage_items[1].threat_level]
        /\ clock' = clock + 1
        /\ UNCHANGED <<threat_monitoring, collection_stats, news_api_key, callVars,
                       runVars, concVars, sevVars>>

\* the first sighting of the object
Ingest == scored.ingests = 0 /\ IngestOf(payload)

\* a later sighting: same title and place, anything else may have changed
Reingest ==
    /\ scored.ingests > 0 /\ scored.ingests < MaxIngests
    /\ \E p \in IngestPayloads : p.country = payload.country /\ IngestOf(p)

NextIngest == ScorePayload \/ Ingest \/ Reingest

SpecIngest == InitIngest /\ [][NextIngest]_vars

(***************************************************************************)
(* Two save_to_database executions on separate connections, each saving    *)
(* one record.  sqlite3 runs the SELECT outside a transaction; the INSERT  *)
(* or UPDATE opens one and takes the database's write lock, which is held  *)
(* until commit or rollback.  A connection reads the committed content.    *)
(***************************************************************************)

Conns == {1, 2}

\* records a connection may be saving, normalised at time t
ConcItems(t) ==
    {MetItem(1, MonaLisa, t), MetItem(1, MonaLisaStored, t), UnescoItem(Krakow, t)}

InitConc ==
    /\ heritage_items \in {<<>>, InsertRow(<<>>, MetItem(2, MonaLisaPrint, 0))}
    /\ threat_monitoring = <<>> /\ collection_stats = <<>>
    /\ CallInit /\ RunInit /\ SevInit /\ ScoreInit
    /\ clock = 0 /\ news_api_key = TRUE
    /\ \E i1 \in ConcItems(1), i2 \in ConcItems(1) \cup ConcItems(2) :
          conn = [c \in Conns |->
                    [ConnIdle EXCEPT !.pos = "select", !.item = IF c = 1 THEN i1 ELSE i2]]
    /\ lock = 0
    /\ wlog = <<>>

\* cursor.execute("SELECT id FROM heritage_items WHERE hash_id = ?"); fetchone()
Lookup(c) ==
    /\ conn[c].pos = "select"
    /\ conn' = [conn EXCEPT ![c].pos = "write",
                            ![c].existing = Existing(heritage_items, HashId(conn[c].item))]
    /\ UNCHANGED <<storeVars, envVars, callVars, runVars, lock, wlog, sevVars, scoreVars>>

\* the UPDATE or INSERT the lookup chose, once the write lock is free.  An
\* INSERT of a hash_id that is stored by now violates UNIQUE: sqlite3 raises
\* IntegrityError, the "with" block rolls back and the exception leaves
\* save_to_database.
Write(c) ==
    /\ conn[c].pos = "write"
    /\ lock = 0
    /\ IF ~conn[c].existing /\ Existing(heritage_items, HashId(conn[c].item))
       THEN /\ conn' = [conn EXCEPT ![c].pos = "error", ![c].error = "IntegrityError"]
            /\ lock' = 0
       ELSE /\ conn' = [conn EXCEPT
                          ![c].pos = "commit",
                          ![c].pending = IF conn[c].existing
                                         THEN UpdateRow(heritage_items, conn[c].item)
                                         ELSE InsertRow(heritage_items, conn[c].item)]
            /\ lock' = c
    /\ UNCHANGED <<storeVars, envVars, callVars, runVars, wlog, sevVars, scoreVars>>

\* the other connection keeps the write lock longer than the busy timeout:
\* sqlite3 raises OperationalError (database is locked)
WriteLocked(c) ==
    /\ conn[c].pos = "write"
    /\ lock \notin {0, c}
    /\ conn' = [conn EXCEPT ![c].pos = "error", ![c].error = "OperationalError"]
    /\ UNCHANGED <<storeVars, envVars, callVars, runVars, lock, wlog, sevVars, scoreVars>>

\* conn.commit()
Commit(c) ==
    /\ conn[c].pos = "commit"
    /\ heritage_items' = conn[c].pending
    /\ conn' = [conn EXCEPT ![c].pos = "done"]
    /\ lock' = 0
    /\ wlog' = Append(wlog, c)
    /\ UNCHANGED <<threat_monitoring, collection_stats, envVars, callVars, runVars,
                   sevVars, scoreVars>>

NextConc == \E c \in Conns : Lookup(c) \/ Write(c) \/ WriteLocked(c) \/ Commit(c)

SpecConc == InitConc /\ [][NextConc]_vars

(***************************************************************************)
(* The report over stores with many locations                              *)
(***************************************************************************)

\* the states of the l-th group of registry sites; the first group has none
ReportLocation(l) == IF l = 1 THEN "" ELSE "Land " \o SubSeq(UpperCase, l, l)

\* the name of the k-th site of the l-th group
ReportSiteName(l, k) ==
    "Site " \o SubSeq(UpperCase, l, l) \o SubSeq(LowerCase, k, k)

RECURSIVE ReportSites(_, _)
\* a registry answer with profile[l] sites in the l-th group, for the first n groups
ReportSites(profile, n) ==
    IF n = 0 THEN <<>>
    ELSE ReportSites(profile, n - 1) \o
         [k \in 1..profile[n] |->
            Site(ReportSiteName(n, k), ReportLocation(n), "1978", "0")]

\* how many sites each group has, in the registry answers that filled the store
ReportProfiles ==
    { <<0>>,
      <<1>>,
      <<0, 1, 2>>,
      <<0, 3, 3, 3>>,
      <<0, 1, 2, 3, 4, 5, 6, 7, 8, 9, 10>>,
      <<5, 1, 1, 2, 2, 3, 3, 4, 4, 5, 5, 6>>,
      <<2, 1, 2, 3, 4, 5, 6, 7, 8, 9, 10, 11, 12>> }

\* the stores left by collecting such an answer and saving it
ReportTables ==
    { save_to_database(<<>>,
          collect_unesco_data([ok |-> TRUE, sites |-> ReportSites(p, Len(p))], 0),
          0).tbl : p \in ReportProfiles }

InitReport ==
    /\ heritage_items \in ReportTables
    /\ threat_monitoring = <<>>
    /\ collection_stats = <<>>
    /\ CallInit /\ RunInit /\ ConcInit /\ SevInit /\ ScoreInit
    /\ clock = 0
    /\ news_api_key \in BOOLEAN

NextReport == SaveToDatabase \/ GenerateCollectionReport

SpecReport == InitReport /\ [][NextReport]_vars

(***************************************************************************)
(* Saving records whose names and locations contain the separator          *)
(***************************************************************************)

IdentityNames == {"Temple", "Temple_East", "Gate"}
IdentityLocations == {"Delta", "East_Delta", ""}

\* registry sites and museum payloads with these names and places
IdentitySites ==
    {Site(n, l, "1978", "0") : n \in IdentityNames, l \in IdentityLocations}

IdentityPayloads ==
    {[MonaLisa EXCEPT !.title = "Temple", !.city = "", !.country = l] :
        l \in IdentityLocations}

\* the records the two normalizers make of them at time now
IdentityRecords(now) ==
    {collect_unesco_data([ok |-> TRUE, sites |-> <<s>>], now)[1] : s \in IdentitySites}
        \cup {process_met_batch(<<Fetched(1, p)>>, now)[1] : p \in IdentityPayloads}

\* a call of save_to_database with two such records
SaveIdentity ==
    /\ Rest /\ ops < MaxOps
    /\ \E a \in IdentityRecords(clock) : \E b \in IdentityRecords(clock) :
          LET items == <<a, b>>
              r == save_to_database(heritage_items, items, 0)
          IN  /\ heritage_items' = r.tbl
              /\ last' = [op |-> "save", items |-> items,
                          pre_keys |-> Keys(heritage_items), new |-> r.new,
                          updated |-> r.updated, raised |-> r.raised,
                          failed_at |-> 0]
    /\ ops' = ops + 1 /\ clock' = clock + 1 /\ NoRun /\ UNCHANGED runs
    /\ UNCHANGED <<threat_monitoring, collection_stats, news_api_key,
                   concVars, sevVars, scoreVars>>

NextIdentity == SaveIdentity

SpecIdentity == Init /\ [][NextIdentity]_vars

(***************************************************************************)
(* Properties                                                              *)
(***************************************************************************)

\* C5 (as claimed): every heritage_items row has a significance_score between
\* 0.0 and 10.0, whatever museum or registry payload it was made from.
C5_ScoreWithinBounds ==
    \A i \in 1..Len(heritage_items) :
        /\ heritage_items[i].significance_score >= 0
        /\ heritage_items[i].significance_score <= 1000

\* the texts of the ingest payloads that were written to match the reference
\* list of creators, to carry an antiquity marker, to name a high-risk region
MatchingArtists == {"Workshop of Rembrandt"}
AntiqueDates == {"ca. 500 BC"}
HighRiskCountries == {"Syrian Arab Republic"}

Bonus(b, points) == IF b THEN points ELSE 0

C6_Formula(p) ==
    Min(1000, 500 + Bonus(p.artistDisplayName \in MatchingArtists, 200)
                  + Bonus(p.objectDate \in AntiqueDates, 150)
                  + Bonus(p.isPublicDomain, 50)
                  + Bonus(p.primaryImage # "", 50)
                  + Bonus(p.isOnView, 50))

\* C6: the museum score equals min(10, 5 + 2*[creator matches] + 1.5*[antiquity
\* marker] + 0.5*[public domain] + 0.5*[image] + 0.5*[on display]) for every
\* combination of the five flags, both as returned by the scorer and as stored
\* for the object.
C6_MuseumScore ==
    /\ (scored.called /\ scored.ingests <= 1) => scored.score = C6_Formula(payload)
    /\ scored.kept # <<>> =>
          /\ Len(heritage_items) = 1
          /\ heritage_items[1].significance_score = C6_Formula(scored.kept[1])

\* a public-domain object on display with no other bonus is stored with 6.0
C6_Witness ==
    /\ scored.kept # <<>>
    /\ scored.kept[1].isPublicDomain /\ scored.kept[1].isOnView
    /\ scored.kept[1].artistDisplayName = "" /\ scored.kept[1].objectDate = ""
    /\ scored.kept[1].primaryImage = ""
    /\ Len(heritage_items) = 1
    /\ heritage_items[1].significance_score = 600

C7_Level(p) ==
    IF p.country \in HighRiskCountries THEN "High"
    ELSE IF p.isOnView THEN "Low"
    ELSE "Medium"

\* C7: the museum threat level is High when the country is in a high-risk
\* region (even on display), otherwise Low when on display, otherwise Medium;
\* after any re-ingestion of the object exactly one record is stored and it
\* carries the level of the latest eligible payload.
C7_MuseumThreatLevel ==
    /\ (scored.called /\ scored.ingests <= 1) => scored.level = C7_Level(payload)
    /\ scored.kept # <<>> =>
          /\ Len(heritage_items) = 1
          /\ heritage_items[1].threat_level = C7_Level(scored.kept[1])

\* an object stored as Low while on display is ingested again off display: one
\* record, now Medium
C7_Witness ==
    /\ scored.ingests = 2 /\ scored.prev_level = "Low"
    /\ scored.kept # <<>> /\ ~scored.kept[1].isOnView
    /\ Len(heritage_items) = 1
    /\ heritage_items[1].threat_level = "Medium"

\* what was put into the article's two fields
Labelled(a, k) ==
    {x \in SeverityTexts : k \notin a.null /\ x[1] = a[k]}
PutHigh(a) == \E k \in {"title", "description"} : \E x \in Labelled(a, k) : x[2]
PutMedium(a) == \E k \in {"title", "description"} : \E x \in Labelled(a, k) : x[3]

\* C8: severity is High when a high-severity term occurs in title or
\* description, also when a medium-severity term occurs too; otherwise Medium
\* when a medium-severity term occurs in a field or across the joined text;
\* otherwise Low.
C8_SeverityPrecedence ==
    severity # "unset" =>
        severity = IF PutHigh(article) THEN "High"
                   ELSE IF PutMedium(article)
                           \/ Contains("at risk", ArticleContent(article)) THEN "Medium"
                   ELSE "Low"

\* a medium-severity term in the title and a high-severity one in the description
C8_Witness ==
    /\ severity = "High"
    /\ article.title = "Statue damaged"
    /\ article.description = "Museum DESTROYED by fire"

\* the row stored for hash_id h
RowOf(tbl, h) == tbl[CHOOSE i \in 1..Len(tbl) : tbl[i].hash_id = h]

RowsOf(tbl, h) == {i \in 1..Len(tbl) : tbl[i].hash_id = h}

\* C2 (as claimed): when two executions save records with the same identity
\* key on separate connections, in every interleaving both complete without
\* error, one row is stored for the key and it carries the mutable fields of
\* the writer that wrote last.
C2_ConcurrentUpsert ==
    (/\ \A c \in Conns : conn[c].pos \in {"done", "error"}
     /\ HashId(conn[1].item) = HashId(conn[2].item))
    => /\ \A c \in Conns : conn[c].pos = "done"
       /\ Cardinality(RowsOf(heritage_items, HashId(conn[1].item))) = 1
       /\ LET w == conn[wlog[Len(wlog)]].item
              r == RowOf(heritage_items, HashId(w))
          IN  /\ r.significance_score = w.significance_score
              /\ r.threat_level = w.threat_level
              /\ r.last_updated = w.last_updated
              /\ r.metadata = w.metadata

Range(q) == {q[i] : i \in 1..Len(q)}

SameKey(a, b) == HashId(a) = HashId(b)

\* the row for item's key carries item's mutable fields
CarriesMutableOf(tbl, item) ==
    /\ Cardinality(RowsOf(tbl, HashId(item))) = 1
    /\ RowOf(tbl, HashId(item)).significance_score = item.significance_score
    /\ RowOf(tbl, HashId(item)).threat_level = item.threat_level
    /\ RowOf(tbl, HashId(item)).metadata = item.metadata

\* last is a save_to_database call that returned
Saved(call) == call.op = "save" /\ ~call.raised

\* C1 (as claimed): for any store state, saving two records that share the
\* identity key in one call leaves exactly one row for the key, counts the
\* first as new and the second as updated, and stores the second's fields.
C1_UpsertFirstIsNew ==
    (/\ Saved(last) /\ Len(last.items) = 2
     /\ SameKey(last.items[1], last.items[2]))
    => /\ CarriesMutableOf(heritage_items, last.items[2])
       /\ last.new = 1 /\ last.updated = 1

C1_Step ==
    (ops' = ops + 1 /\ Saved(last')) =>
       /\ (Len(last'.items) = 2 /\ SameKey(last'.items[1], last'.items[2])) =>
             /\ CarriesMutableOf(heritage_items', last'.items[2])
             /\ IF HashId(last'.items[1]) \in last'.pre_keys
                THEN last'.new = 0 /\ last'.updated = 2
                ELSE last'.new = 1 /\ last'.updated = 1
       /\ (/\ Saved(last) /\ Len(last.items) = 1 /\ Len(last'.items) = 1
           /\ SameKey(last.items[1], last'.items[1])) =>
             /\ CarriesMutableOf(heritage_items', last'.items[1])
             /\ last'.new = 0 /\ last'.updated = 1
             /\ IF HashId(last.items[1]) \in last.pre_keys
                THEN last.new = 0 /\ last.updated = 1
                ELSE last.new = 1 /\ last.updated = 0

\* C1 (amended): saving two records that share the identity key, in one call
\* or in two successive calls, leaves exactly one row for the key with the
\* second's significance_score, threat_level and metadata; the second save is
\* counted as updated, and the first as new when the key was not stored before
\* and as updated when it was.
C1_UpsertIdempotent == [][C1_Step]_vars

\* two records with one key saved in one call into a store without the key
C1_Witness ==
    /\ Saved(last) /\ Len(last.items) = 2
    /\ SameKey(last.items[1], last.items[2])
    /\ last.items[1].significance_score # last.items[2].significance_score
    /\ HashId(last.items[1]) \notin last.pre_keys
    /\ last.new = 1 /\ last.updated = 1
    /\ CarriesMutableOf(heritage_items, last.items[2])

\* C3 (as claimed): when the first source's adapter raises and the next source
\* succeeds with 3 items, the returned result has exactly 1 error message and
\* total_items_collected = 3.
C3_PartialFailure ==
    (/\ pc = "done" /\ stages.store_failed = {}
     /\ stages.met_listing_failed
     /\ stages.unesco_ok /\ stages.unesco_items = 3)
    => /\ Len(last.results.errors) = 1
       /\ last.results.total_items_collected = 3

\* C4 (as claimed): a store failure inside save_to_database or
\* save_threats_to_database propagates out of run_full_collection and no later
\* stage is processed; nothing but a store failure propagates.
C4_StoreFailureAborts ==
    /\ stages.store_failed \cap {"met", "unesco", "threats"} # {} => pc = "raised"
    /\ pc = "raised" => stages.store_failed # {}

\* C9: without a news API key the threat stage sends no request, appends no
\* row to threat_monitoring, reports threats_detected = 0 and records no error.
C9_MissingCredential ==
    (~news_api_key /\ "threats" \in Range(stages.attempted)) =>
       /\ stages.news_requests = 0
       /\ Len(threat_monitoring) = stages.threats_before
       /\ results.threats_detected = 0
       /\ results.errors = SelectSeq(results.errors, LAMBDA e : e # "Threat monitoring failed")
       /\ "Threat Monitoring" \in Range(results.sources_processed)

\* a run without the key has returned
C9_Witness ==
    /\ ~news_api_key /\ pc = "done"
    /\ last.results.threats_detected = 0
    /\ "Threat Monitoring" \in Range(last.results.sources_processed)

C10_Step ==
    /\ Len(heritage_items') >= Len(heritage_items)
    /\ \A i \in 1..Len(heritage_items) :
          /\ heritage_items'[i].id = heritage_items[i].id
          /\ heritage_items'[i].hash_id = heritage_items[i].hash_id
          /\ heritage_items'[i].name = heritage_items[i].name
          /\ heritage_items'[i].location = heritage_items[i].location
          /\ heritage_items'[i].type = heritage_items[i].type
          /\ heritage_items'[i].period = heritage_items[i].period
          /\ heritage_items'[i].source = heritage_items[i].source

\* C10: no operation removes a heritage_items row, and an update leaves the
\* row's id, identity key, name, location, type, period and source as they
\* were, also when the incoming record has another type or period.
C10_NeverDeletedUpdatedInPlace == [][C10_Step]_vars

\* a row updated by a record of another type and period
C10_Witness ==
    /\ Saved(last)
    /\ \E k \in 1..Len(last.items) :
          LET item == last.items[k]
          IN  /\ CarriesMutableOf(heritage_items, item)
              /\ RowOf(heritage_items, HashId(item)).type # item.type
              /\ RowOf(heritage_items, HashId(item)).period # item.period

\* C11 (as claimed): when save_to_database fails on the record at position k
\* of its input list, the upserts already applied for the records at positions
\* before k are in the store afterwards: each of them has a row, and the row
\* carries that record's fields unless a later record before k shares its key.
C11_EarlierUpsertsRemain ==
    (last.op = "save" /\ last.raised) =>
        \A j \in 1..(last.failed_at - 1) :
            /\ HashId(last.items[j]) \in Keys(heritage_items)
            /\ (\A i \in (j + 1)..(last.failed_at - 1) :
                    ~SameKey(last.items[i], last.items[j]))
               => CarriesMutableOf(heritage_items, last.items[j])

\* the number of stored records with location loc
RecordsAt(tbl, loc) == Cardinality({i \in 1..Len(tbl) : tbl[i].location = loc})

\* the locations listed in a top_locations result
Listed(top) == {top[i][1] : i \in 1..Len(top)}

\* a call of generate_collection_report is this step
ReportStep == ops' = ops + 1 /\ last'.op = "report"

C12_Step ==
    ReportStep =>
        LET top == last'.report.top_locations
        IN  /\ Len(top) <= 10
            /\ \A i \in 1..Len(top) : top[i][1] # ""
            /\ \A i, j \in 1..Len(top) : i < j => top[i][2] >= top[j][2]
            /\ \A i \in 1..Len(top) : top[i][2] = RecordsAt(heritage_items, top[i][1])
            /\ \A r \in 1..Len(heritage_items) :
                  LET loc == heritage_items[r].location
                  IN  (loc # "" /\ loc \notin Listed(top)) =>
                          \A i \in 1..Len(top) :
                              RecordsAt(heritage_items, loc) <= top[i][2]
            /\ storeVars' = storeVars

\* C12: in every store state, the top_locations of generate_collection_report
\* has at most 10 entries, none with an empty location, in non-increasing order
\* of count; each count is the number of stored records with that location; no
\* omitted (non-empty) location has a count greater than a listed one; and the
\* call leaves the three tables unchanged.
C12_TopLocations == [][C12_Step]_vars

\* a report was produced over a store with more than 10 non-empty locations
\* and with records of empty location: 10 entries are listed, one is cut
C12_Witness ==
    /\ last.op = "report"
    /\ Len(last.report.top_locations) = 10
    /\ Cardinality({heritage_items[i].location : i \in 1..Len(heritage_items)} \ {""}) > 10
    /\ \E i \in 1..Len(heritage_items) : heritage_items[i].location = ""

\* the order in which a run moves through its stages
StageOrder == <<"met", "unesco", "threats", "stats">>

\* the run has ended in this step, by returning or by raising
RunEnds == pc = "stats" /\ pc' \in {"done", "raised"}

C13_Step ==
    \* the stages are attempted one at a time, in the fixed order, whatever
    \* failed before
    /\ stages'.attempted # stages.attempted =>
          \/ stages'.attempted = <<>>
          \/ /\ Len(stages.attempted) < Len(StageOrder)
             /\ stages'.attempted =
                  Append(stages.attempted, StageOrder[Len(stages.attempted) + 1])
             /\ stages.attempted = SubSeq(StageOrder, 1, Len(stages.attempted))
    \* a run ends only after the three stages and the statistics write
    /\ RunEnds => stages'.attempted = StageOrder
    \* a run that returns has written exactly one row, with the result's counts
    /\ (RunEnds /\ pc' = "done") =>
          /\ Len(collection_stats') = Len(collection_stats) + 1
          /\ SubSeq(collection_stats', 1, Len(collection_stats)) = collection_stats
          /\ LET row == collection_stats'[Len(collection_stats')]
                 res == last'.results
             IN  /\ last'.op = "run" /\ ~last'.raised
                 /\ row.total_items = res.total_items_collected
                 /\ row.new_items = res.new_items
                 /\ row.updated_items = res.updated_items
                 /\ row.errors = Len(res.errors)
    \* a run raises only when the statistics write itself fails in the store
    /\ (RunEnds /\ pc' = "raised") => "stats" \in stages'.store_failed
    \* nothing else writes collection_stats
    /\ collection_stats' # collection_stats => (RunEnds /\ pc' = "done")

\* C13: in every run_full_collection the stages are attempted one at a time in
\* the order Metropolitan Museum, UNESCO, threat monitoring; a failure in a
\* stage never prevents the later stages from being attempted; and after the
\* three stages exactly one collection_stats row is written, whose total, new,
\* updated and error counts are those of the returned result.
C13_FailureIsolation == [][C13_Step]_vars

\* a run whose museum stage raised at the source boundary and whose registry
\* request or normalizer failed has returned after attempting the two later
\* stages and writing its statistics row
C13_Witness ==
    /\ pc = "done"
    /\ "met" \in stages.store_failed
    /\ ~stages.unesco_ok
    /\ last.results.sources_processed = <<"UNESCO", "Threat Monitoring">>
    /\ Len(last.results.errors) = 1
    /\ Len(collection_stats) = 1
    /\ collection_stats[1].errors = 1

\* what the identity key is meant to be computed from
Triple(item) == <<item.name, item.location, item.source>>

\* C14 (as claimed): two records saved by save_to_database are mapped to the
\* same stored row if and only if they agree on name, location and source,
\* also when a name or location contains the '_' separator; saved into an
\* empty store they leave as many rows as they have distinct triples.
C14_IdentityByTriple ==
    (Saved(last) /\ Len(last.items) = 2) =>
        LET a == last.items[1]
            b == last.items[2]
        IN  /\ (RowsOf(heritage_items, HashId(a)) = RowsOf(heritage_items, HashId(b)))
                    <=> (Triple(a) = Triple(b))
            /\ last.pre_keys = {} =>
                    Len(heritage_items) = Cardinality({Triple(a), Triple(b)})

\* some row of tbl was made from a record with this name, location and source
Stored(tbl, name, location, source) ==
    \E i \in 1..Len(tbl) :
        /\ tbl[i].name = name /\ tbl[i].location = location /\ tbl[i].source = source

\* C15 (as claimed): in a run whose stores succeed, a museum object whose fetch
\* fails and a registry site whose inscription year does not convert are
\* skipped, and every other item of the same source (the later ones too) is
\* normalized and stored.
C15_ItemFailuresAbsorbed ==
    /\ (pc \in {"unesco", "threats", "stats", "done"} /\ "met" \notin stages.store_failed) =>
          \A k \in 1..Len(stages.met_objects) :
              LET f == stages.met_objects[k]
              IN  (f.ok /\ MetEligible(f.data)) =>
                      Stored(heritage_items, f.data.title,
                             MetItem(f.obj_id, f.data, 0).location, "Metropolitan Museum")
    /\ (pc \in {"threats", "stats", "done"} /\ "unesco" \notin stages.store_failed) =>
          \A k \in 1..Len(stages.unesco_sites) :
              LET site == stages.unesco_sites[k]
              IN  ~SiteYearFails(site) =>
                      Stored(heritage_items, site.site, site.states, "UNESCO")

=============================================================================
